---- MODULE Spec2Model ----
(***************************************************************************)
(* Model of the protein .pkl <-> PostgreSQL pipeline                       *)
(*   01_pdb_pkltopsql_pipeline_v02.py      (load, create table, insert,    *)
(*                                          export, proof)                 *)
(*   02_pdb_checker_compare_two_pkl_files  (field check, fingerprint check)*)
(*   03_pdb_filter_geneid_transcriptid     (filtered export)               *)
(*                                                                         *)
(* Python values are tagged records; a str or a bytes object is the        *)
(* sequence of its character codes / byte values.                          *)
(***************************************************************************)
EXTENDS Integers, Sequences, FiniteSets, TLC

VARIABLES
    pc,          \* position of the pipeline script
    dbExists,    \* the database DB_NAME exists on the server
    data,        \* the loaded input collection (list of protein dicts)
    keyOrder,    \* ORIGINAL_KEY_ORDER of the current run
    columns,     \* other_columns of the current run
    tableCols,   \* column order of the table (other columns), <<>> if no table
    colTypes,    \* column name -> PostgreSQL type of the table
    table,       \* committed rows of the table, in physical (heap) order
    txn,         \* rows inserted by the open transaction, not yet committed
    connOpen,    \* the raw connection of insert_proteins_with_pdbs is open
    idx,         \* enumerate() index of the next entry to insert
    startTable,  \* the committed rows when the current run connected
    out,         \* data_out of export_table_to_pkl
    outGene,     \* data_out of export_by_gene / export_by_gene_transcript
    filt,        \* the filter of the last filtered export
    proof,       \* result of proof_compare_pkl
    runs,        \* number of pipeline runs started
    cmpA, cmpB,  \* the two collections handed to the checker toolkit
    cmpRes,      \* results of the checker toolkit
    row,         \* a stored row handed to the row -> record mappers
    rowRes       \* results of the row -> record mappers

vars == <<pc, dbExists, data, keyOrder, columns, tableCols, colTypes, table, txn, connOpen,
          idx, startTable, out, outGene, filt, proof, runs, cmpA, cmpB, cmpRes,
          row, rowRes>>

-----------------------------------------------------------------------------
(* Bounds of the model *)

MaxLen == 2      \* records in one input collection
MaxRuns == 2     \* pipeline runs against the same destination table
MaxPdbs == 2     \* PDB files of one record handed to the row mappers
MaxCmpLen == 2   \* records in a collection handed to the checker toolkit

-----------------------------------------------------------------------------
(* Python values *)

PyNone == [t |-> "none"]
PyStr(s) == [t |-> "str", s |-> s]
PyBool(b) == [t |-> "bool", b |-> b]
PyBytes(y) == [t |-> "bytes", y |-> y]
PyList(l) == [t |-> "list", l |-> l]
PyDict(d) == [t |-> "dict", d |-> d]
\* the str produced by json.dumps: the text of the JSON document doc
PyJsonText(doc) == [t |-> "str", text |-> doc]

\* Python truthiness, as used by `x or y`
Truthy(v) ==
    CASE v.t = "none" -> FALSE
      [] v.t = "bool" -> v.b
      [] v.t = "list" -> Len(v.l) > 0
      [] v.t = "dict" -> DOMAIN v.d # {}
      [] v.t = "bytes" -> Len(v.y) > 0
      [] v.t = "str" -> IF "s" \in DOMAIN v THEN Len(v.s) > 0 ELSE TRUE

PyOr(a, b) == IF Truthy(a) THEN a ELSE b

\* character codes of the literals the code uses
S_bytes == <<98, 121, 116, 101, 115>>
S_base64 == <<98, 97, 115, 101, 54, 52>>
S_True == <<84, 114, 117, 101>>
S_False == <<70, 97, 108, 115, 101>>
S_None == <<78, 111, 110, 101>>
S_true == <<116, 114, 117, 101>>
S_false == <<102, 97, 108, 115, 101>>

-----------------------------------------------------------------------------
(* base64.b64encode(obj).decode("ascii") *)

B64Char(i) ==
    IF i < 26 THEN 65 + i
    ELSE IF i < 52 THEN 97 + (i - 26)
    ELSE IF i < 62 THEN 48 + (i - 52)
    ELSE IF i = 62 THEN 43 ELSE 47

RECURSIVE b64encode(_)
b64encode(y) ==
    IF Len(y) = 0 THEN <<>>
    ELSE IF Len(y) = 1 THEN
        <<B64Char(y[1] \div 4), B64Char((y[1] % 4) * 16), 61, 61>>
    ELSE IF Len(y) = 2 THEN
        <<B64Char(y[1] \div 4), B64Char((y[1] % 4) * 16 + (y[2] \div 16)),
          B64Char((y[2] % 16) * 4), 61>>
    ELSE
        <<B64Char(y[1] \div 4), B64Char((y[1] % 4) * 16 + (y[2] \div 16)),
          B64Char((y[2] % 16) * 4 + (y[3] \div 64)), B64Char(y[3] % 64)>>
        \o b64encode(SubSeq(y, 4, Len(y)))

-----------------------------------------------------------------------------
(* make_json_safe *)

RECURSIVE make_json_safe(_)
make_json_safe(obj) ==
    IF obj.t = "bytes" THEN
        PyDict(("__type__" :> PyStr(S_bytes))
               @@ ("encoding" :> PyStr(S_base64))
               @@ ("data" :> PyStr(b64encode(obj.y))))
    ELSE IF obj.t = "dict" THEN
        PyDict([k \in DOMAIN obj.d |-> make_json_safe(obj.d[k])])
    ELSE IF obj.t = "list" THEN
        PyList([i \in 1..Len(obj.l) |-> make_json_safe(obj.l[i])])
    ELSE obj

-----------------------------------------------------------------------------
(* json.dumps, and the JSON -> Python decoding psycopg2 applies to a JSONB  *)
(* column (json.loads).  A JSON document is a tree of JSON nodes.           *)

RECURSIVE json_dumps(_)
json_dumps(v) ==
    CASE v.t = "none" -> [j |-> "null"]
      [] v.t = "bool" -> [j |-> IF v.b THEN "true" ELSE "false"]
      [] v.t = "str" -> [j |-> "string", chars |-> v.s]
      [] v.t = "list" -> [j |-> "array", items |-> [i \in 1..Len(v.l) |-> json_dumps(v.l[i])]]
      [] v.t = "dict" -> [j |-> "object", members |-> [k \in DOMAIN v.d |-> json_dumps(v.d[k])]]
      [] v.t = "bytes" -> [j |-> "TypeError"]

RECURSIVE json_loads(_)
json_loads(doc) ==
    CASE doc.j = "null" -> PyNone
      [] doc.j = "true" -> PyBool(TRUE)
      [] doc.j = "false" -> PyBool(FALSE)
      [] doc.j = "string" -> PyStr(doc.chars)
      [] doc.j = "array" -> PyList([i \in 1..Len(doc.items) |-> json_loads(doc.items[i])])
      [] doc.j = "object" -> PyDict([k \in DOMAIN doc.members |-> json_loads(doc.members[k])])

-----------------------------------------------------------------------------
(* psycopg2.Binary(content): the hex form of a bytea value, and bytes(pb)   *)
(* on the value read back                                                   *)

RECURSIVE Binary(_)
Binary(y) ==
    IF Len(y) = 0 THEN <<>>
    ELSE <<y[1] \div 16, y[1] % 16>> \o Binary(Tail(y))

RECURSIVE bytes(_)
bytes(pb) ==
    IF Len(pb) < 2 THEN <<>>
    ELSE <<pb[1] * 16 + pb[2]>> \o bytes(SubSeq(pb, 3, Len(pb)))

-----------------------------------------------------------------------------
(* Protein dicts.  A dict is its key order (ord) and its key -> value map   *)
(* (val); Python's == on dicts compares val only.                           *)

Range(f) == {f[i] : i \in DOMAIN f}

Get(entry, key, default) ==
    IF key \in DOMAIN entry.val THEN entry.val[key] ELSE default

ValEq(p1, p2) == p1.val = p2.val

\* STEP 1: ORIGINAL_KEY_ORDER, other_columns
original_key_order(first_entry) == first_entry.ord

other_columns_of(first_entry) ==
    SelectSeq(first_entry.ord, LAMBDA k : k # "pdb_files")

\* STEP 3: infer_pg_type
infer_pg_type(key, value) ==
    IF key = "protein_index" THEN "INTEGER NOT NULL"
    ELSE IF key = "pdb_ids" THEN "TEXT[]"
    ELSE IF key = "pdb_files" THEN "BYTEA[]"
    ELSE IF value.t = "bool" THEN "BOOLEAN"
    ELSE IF value.t \in {"dict", "list"} THEN "JSONB"
    ELSE "VARCHAR(400)"

\* STEP 3: the column definitions of create_table_sql (other columns)
col_defs(first_entry) ==
    [k \in Range(other_columns_of(first_entry)) |->
        infer_pg_type(k, Get(first_entry, k, PyNone))]

VarcharLen == 400

-----------------------------------------------------------------------------
(* PostgreSQL: what a column of a given type stores for a query parameter,   *)
(* and hands back on SELECT (psycopg2 decodes JSONB to Python objects).      *)

PgStore(type, param) ==
    IF param.t = "none" THEN [ok |-> TRUE, v |-> PyNone]
    ELSE IF type = "JSONB" THEN
        IF param.t = "str" /\ "text" \in DOMAIN param
        THEN [ok |-> TRUE, v |-> json_loads(param.text)]
        ELSE [ok |-> FALSE, v |-> PyNone]
    ELSE IF type = "BOOLEAN" THEN
        IF param.t = "bool" THEN [ok |-> TRUE, v |-> param]
        ELSE [ok |-> FALSE, v |-> PyNone]
    ELSE \* VARCHAR(400)
        IF param.t = "str" /\ "s" \in DOMAIN param
        THEN [ok |-> Len(param.s) <= VarcharLen, v |-> param]
        ELSE IF param.t = "str" THEN [ok |-> TRUE, v |-> param]
        ELSE IF param.t = "bool"
        THEN [ok |-> TRUE, v |-> PyStr(IF param.b THEN S_true ELSE S_false)]
        ELSE [ok |-> FALSE, v |-> PyNone]

-----------------------------------------------------------------------------
(* insert_proteins_with_pdbs: the row_dict of one loop iteration             *)

\* the first occurrences of the elements of a sequence
RECURSIVE Unique(_)
Unique(q) ==
    IF Len(q) = 0 THEN <<>>
    ELSE LET front == Unique(SubSeq(q, 1, Len(q) - 1))
         IN  IF \E n \in 1..Len(front) : front[n] = q[Len(q)]
             THEN front ELSE Append(front, q[Len(q)])

\* row_dict with the pdb_ids list built without repeated identifiers
row_dict_UniqueIds(entry, i, other_columns) ==
    [protein_index |-> i,
     cells |-> [key \in Range(other_columns) |->
                  LET value == Get(entry, key, PyNone)
                  IN  IF value.t \in {"dict", "list"}
                      THEN PyJsonText(json_dumps(make_json_safe(value)))
                      ELSE value],
     pdb_ids |-> LET pdbs == Get(entry, "pdb_files", PyList(<<>>)).l
                 IN  Unique([n \in 1..Len(pdbs) |-> pdbs[n].d["pdb_id"]]),
     pdb_files |-> LET pdbs == Get(entry, "pdb_files", PyList(<<>>)).l
                   IN  [n \in 1..Len(pdbs) |-> Binary(pdbs[n].d["content"].y)]]

row_dict(entry, i, other_columns) ==
    [protein_index |-> i,
     cells |-> [key \in Range(other_columns) |->
                  LET value == Get(entry, key, PyNone)
                  IN  IF value.t \in {"dict", "list"}
                      THEN PyJsonText(json_dumps(make_json_safe(value)))
                      ELSE value],
     pdb_ids |-> LET pdbs == Get(entry, "pdb_files", PyList(<<>>)).l
                 IN  [n \in 1..Len(pdbs) |-> pdbs[n].d["pdb_id"]],
     pdb_files |-> LET pdbs == Get(entry, "pdb_files", PyList(<<>>)).l
                   IN  [n \in 1..Len(pdbs) |-> Binary(pdbs[n].d["content"].y)]]

RowKey(r) == <<r.cells["gene_id"], r.cells["transcript_id"]>>

\* the row the table stores for a row_dict; a column the INSERT does not
\* name is NULL
StoredRow(rd, types) ==
    [protein_index |-> rd.protein_index,
     cells |-> [k \in DOMAIN types |->
                  IF k \in DOMAIN rd.cells
                  THEN PgStore(types[k], rd.cells[k]).v ELSE PyNone],
     pdb_ids |-> PyList(rd.pdb_ids),
     pdb_files |-> PyList(rd.pdb_files)]

\* cur.execute with neither the primary key nor the ON CONFLICT clause
ExecuteOutcome_NoConflict(rd, cols, types, visible) ==
    IF ~(DOMAIN rd.cells \subseteq Range(cols)) THEN "error"
    ELSE IF \E k \in DOMAIN rd.cells : ~PgStore(types[k], rd.cells[k]).ok THEN "error"
    ELSE IF \E k \in {"gene_id", "transcript_id"} :
              k \notin DOMAIN rd.cells \/ rd.cells[k].t = "none" THEN "error"
    ELSE "insert"

\* cur.execute(sql, row_dict): "error", "skip" (ON CONFLICT DO NOTHING) or "insert"
ExecuteOutcome(rd, cols, types, visible) ==
    IF ~(DOMAIN rd.cells \subseteq Range(cols)) THEN "error"
    ELSE IF \E k \in DOMAIN rd.cells : ~PgStore(types[k], rd.cells[k]).ok THEN "error"
    ELSE IF \E k \in {"gene_id", "transcript_id"} :
              k \notin DOMAIN rd.cells \/ rd.cells[k].t = "none" THEN "error"
    ELSE IF \E n \in 1..Len(visible) : RowKey(visible[n]) = RowKey(StoredRow(rd, types))
         THEN "skip"
    ELSE "insert"

-----------------------------------------------------------------------------
(* export_table_to_pkl: one stored row back to a protein dict               *)

Min(a, b) == IF a < b THEN a ELSE b

zip_pdbs(ids, files) ==
    [n \in 1..Min(Len(ids), Len(files)) |->
        PyDict(("pdb_id" :> ids[n]) @@ ("content" :> PyBytes(bytes(files[n]))))]

row_to_entry(r, key_order) ==
    [ord |-> key_order,
     val |-> [key \in Range(key_order) |->
                IF key = "pdb_files"
                THEN PyList(zip_pdbs(PyOr(r.pdb_ids, PyList(<<>>)).l,
                                     PyOr(r.pdb_files, PyList(<<>>)).l))
                ELSE r.cells[key]]]

\* row[key] raises KeyError for a key that is no column of the table
row_to_entry_ok(r, key_order) ==
    \A key \in Range(key_order) : key = "pdb_files" \/ key \in DOMAIN r.cells

\* the orders in which SELECT ... ORDER BY protein_index may return rows:
\* every permutation with ascending protein_index (ties in any order)
Orderings(rows) ==
    {p \in [1..Len(rows) -> 1..Len(rows)] :
        /\ \A a, b \in 1..Len(rows) : a # b => p[a] # p[b]
        /\ \A a, b \in 1..Len(rows) :
              a < b => rows[p[a]].protein_index <= rows[p[b]].protein_index}

export_table_to_pkl(rows, p, key_order) ==
    [n \in 1..Len(rows) |-> row_to_entry(rows[p[n]], key_order)]

-----------------------------------------------------------------------------
(* 03: detect_other_columns, rows_to_pkl, export_by_gene(_transcript)       *)

detect_other_columns(table_columns) == table_columns

rows_to_pkl_assert(r) ==
    Len(PyOr(r.pdb_ids, PyList(<<>>)).l) = Len(PyOr(r.pdb_files, PyList(<<>>)).l)

rows_to_pkl_entry(r, other_columns) ==
    [ord |-> other_columns \o <<"pdb_files">>,
     val |-> [col \in Range(other_columns) \cup {"pdb_files"} |->
                IF col = "pdb_files"
                THEN PyList(zip_pdbs(PyOr(r.pdb_ids, PyList(<<>>)).l,
                                     PyOr(r.pdb_files, PyList(<<>>)).l))
                ELSE IF col = "exons" THEN PyOr(r.cells[col], PyList(<<>>))
                ELSE r.cells[col]]]

\* nothing written: no export has run, or df.empty made the export return
NoExport == [raised |-> "none", data_out |-> <<>>]

\* the assert of the first offending row ends rows_to_pkl before the file is written
rows_to_pkl(rows, other_columns) ==
    IF \A n \in 1..Len(rows) : rows_to_pkl_assert(rows[n])
    THEN [raised |-> "none",
          data_out |-> [n \in 1..Len(rows) |-> rows_to_pkl_entry(rows[n], other_columns)]]
    ELSE [raised |-> "AssertionError", data_out |-> <<>>]

\* the rows of an ordered scan
OrderedRows(rows, p) == [n \in 1..Len(rows) |-> rows[p[n]]]

export_by_gene(rows, p, gene_id, other_columns) ==
    LET df == SelectSeq(OrderedRows(rows, p), LAMBDA r : r.cells["gene_id"] = gene_id)
    IN  IF Len(df) = 0 THEN NoExport ELSE rows_to_pkl(df, other_columns)

export_by_gene_transcript(rows, p, gene_id, transcript_id, other_columns) ==
    LET df == SelectSeq(OrderedRows(rows, p),
                        LAMBDA r : /\ r.cells["gene_id"] = gene_id
                                   /\ r.cells["transcript_id"] = transcript_id)
    IN  IF Len(df) = 0 THEN NoExport ELSE rows_to_pkl(df, other_columns)

-----------------------------------------------------------------------------
(* hash_protein: the byte stream fed to sha256.  sha256 is taken to be       *)
(* injective, so a digest is represented by the stream it was computed from. *)

KeyChars(k) ==
    CASE k = "data" -> <<100, 97, 116, 97>>
      [] k = "__type__" -> <<95, 95, 116, 121, 112, 101, 95, 95>>
      [] k = "encoding" -> <<101, 110, 99, 111, 100, 105, 110, 103>>
      [] k = "pdb_id" -> <<112, 100, 98, 95, 105, 100>>
      [] k = "content" -> <<99, 111, 110, 116, 101, 110, 116>>
      [] OTHER -> <<63>>

DictKeys(d) ==
    SelectSeq(<<"data", "__type__", "encoding", "pdb_id", "content">>,
              LAMBDA k : k \in DOMAIN d)

RECURSIVE JsonChars(_)
RECURSIVE JsonItems(_, _)
RECURSIVE JsonMembers(_, _, _)
JsonChars(doc) ==
    CASE doc.j = "null" -> <<110, 117, 108, 108>>
      [] doc.j = "true" -> S_true
      [] doc.j = "false" -> S_false
      [] doc.j = "string" -> <<34>> \o doc.chars \o <<34>>
      [] doc.j = "array" -> <<91>> \o JsonItems(doc.items, 1) \o <<93>>
      [] doc.j = "object" ->
            <<123>> \o JsonMembers(doc.members, DictKeys(doc.members), 1) \o <<125>>
JsonItems(items, n) ==
    IF n > Len(items) THEN <<>>
    ELSE (IF n > 1 THEN <<44, 32>> ELSE <<>>)
         \o JsonChars(items[n]) \o JsonItems(items, n + 1)
JsonMembers(members, keys, n) ==
    IF n > Len(keys) THEN <<>>
    ELSE (IF n > 1 THEN <<44, 32>> ELSE <<>>)
         \o <<34>> \o KeyChars(keys[n]) \o <<34, 58, 32>>
         \o JsonChars(members[keys[n]]) \o JsonMembers(members, keys, n + 1)

\* the characters of a str
StrChars(v) == IF "s" \in DOMAIN v THEN v.s ELSE JsonChars(v.text)

\* str.encode()
encode(v) == StrChars(v)

\* str(x) for the values protein_coding / nmd hold
str(v) ==
    CASE v.t = "bool" -> IF v.b THEN S_True ELSE S_False
      [] v.t = "none" -> S_None
      [] v.t = "str" -> StrChars(v)
      [] OTHER -> <<63>>

RECURSIVE PickleBody(_)
RECURSIVE PickleItems(_, _)
RECURSIVE PickleMembers(_, _, _)
PickleBody(v) ==
    CASE v.t = "none" -> <<78>>
      [] v.t = "bool" -> IF v.b THEN <<136>> ELSE <<137>>
      [] v.t = "str" -> <<140, Len(StrChars(v))>> \o StrChars(v)
      [] v.t = "bytes" -> <<67, Len(v.y)>> \o v.y
      [] v.t = "list" -> <<93, 40>> \o PickleItems(v.l, 1) \o <<101>>
      [] v.t = "dict" -> <<125, 40>> \o PickleMembers(v.d, DictKeys(v.d), 1) \o <<117>>
PickleItems(l, n) ==
    IF n > Len(l) THEN <<>> ELSE PickleBody(l[n]) \o PickleItems(l, n + 1)
PickleMembers(d, keys, n) ==
    IF n > Len(keys) THEN <<>>
    ELSE <<140, Len(KeyChars(keys[n]))>> \o KeyChars(keys[n])
         \o PickleBody(d[keys[n]]) \o PickleMembers(d, keys, n + 1)

pickle_dumps(v) == <<128, 4>> \o PickleBody(v) \o <<46>>

RECURSIVE HashPdbs(_, _)
HashPdbs(pdbs, n) ==
    IF n > Len(pdbs) THEN <<>>
    ELSE encode(pdbs[n].d["pdb_id"]) \o pdbs[n].d["content"].y
         \o HashPdbs(pdbs, n + 1)

\* 02_pdb_checker: hash_protein
hash_protein(protein) ==
    encode(protein.val["gene_id"])
    \o encode(protein.val["transcript_id"])
    \o encode(PyOr(protein.val["sequence"], PyStr(<<>>)))
    \o pickle_dumps(protein.val["exons"])
    \o str(protein.val["protein_coding"])
    \o str(protein.val["nmd"])
    \o HashPdbs(protein.val["pdb_files"].l, 1)

\* 01_pipeline: hash_protein (optional fields read with .get and a default)
pipeline_hash_protein(protein) ==
    encode(protein.val["gene_id"])
    \o encode(protein.val["transcript_id"])
    \o encode(PyOr(protein.val["sequence"], PyStr(<<>>)))
    \o pickle_dumps(Get(protein, "exons", PyList(<<>>)))
    \o str(Get(protein, "protein_coding", PyBool(FALSE)))
    \o str(Get(protein, "nmd", PyBool(FALSE)))
    \o HashPdbs(Get(protein, "pdb_files", PyList(<<>>)).l, 1)

\* 02_pdb_checker: proof_compare_pkl
proof_compare_pkl(data1, data2) ==
    /\ Len(data1) = Len(data2)
    /\ \A i \in 1..Len(data1) : hash_protein(data1[i]) = hash_protein(data2[i])

\* 01_pipeline: proof_compare_pkl
pipeline_proof_compare_pkl(data1, data2) ==
    /\ Len(data1) = Len(data2)
    /\ \A i \in 1..Len(data1) :
          pipeline_hash_protein(data1[i]) = pipeline_hash_protein(data2[i])

-----------------------------------------------------------------------------
(* 02_pdb_checker: index_by_key, compare_proteins, compare_pkl_files        *)

ProteinKey(protein) == <<protein.val["gene_id"], protein.val["transcript_id"]>>

\* {(gene_id, transcript_id): p for p in data}: a later record replaces an
\* earlier one with the same key
index_by_key(d) ==
    [k \in {ProteinKey(d[i]) : i \in 1..Len(d)} |->
        d[CHOOSE i \in 1..Len(d) :
              /\ ProteinKey(d[i]) = k
              /\ \A j \in 1..Len(d) : ProteinKey(d[j]) = k => j <= i]]

CheckedFields == <<"sequence", "exons", "protein_coding", "nmd">>

pdbs_equal(l1, l2) ==
    /\ Len(l1) = Len(l2)
    /\ \A i \in 1..Len(l1) :
          /\ l1[i].d["pdb_id"] = l2[i].d["pdb_id"]
          /\ l1[i].d["content"] = l2[i].d["content"]

compare_proteins(input_data, output_data) ==
    LET in_map == index_by_key(input_data)
        out_map == index_by_key(output_data)
    IN  /\ DOMAIN in_map = DOMAIN out_map
        /\ \A key \in DOMAIN in_map :
              /\ \A f \in 1..Len(CheckedFields) :
                    in_map[key].val[CheckedFields[f]] = out_map[key].val[CheckedFields[f]]
              /\ pdbs_equal(in_map[key].val["pdb_files"].l,
                            out_map[key].val["pdb_files"].l)

compare_pkl_files(data1, data2) ==
    LET map1 == index_by_key(data1)
        map2 == index_by_key(data2)
    IN  /\ DOMAIN map1 = DOMAIN map2
        /\ \A key \in DOMAIN map1 :
              /\ \A f \in 1..Len(CheckedFields) :
                    map1[key].val[CheckedFields[f]] = map2[key].val[CheckedFields[f]]
              /\ pdbs_equal(map1[key].val["pdb_files"].l,
                            map2[key].val["pdb_files"].l)

-----------------------------------------------------------------------------
(* The input collections of the model *)

sG1 == <<71, 49>>
sG2 == <<71, 50>>
sT1 == <<84, 49>>
sT2 == <<84, 50>>
sM == <<77>>
sE1 == <<101, 49>>
s1ABC == <<49, 65, 66, 67>>
s1XYZ == <<49, 88, 89, 90>>

Pdb(id, content) == PyDict(("pdb_id" :> PyStr(id)) @@ ("content" :> PyBytes(content)))

KeyOrders ==
    << <<"gene_id", "transcript_id", "sequence", "exons", "protein_coding", "nmd",
         "pdb_files">>,
       <<"gene_id", "transcript_id", "pdb_files", "sequence", "exons",
         "protein_coding", "nmd">> >>

\* key orders of records that lack an identity field: no transcript_id, and
\* the empty record
KeyOrdersWithoutIdentity ==
    << <<"gene_id", "sequence", "exons", "protein_coding", "nmd", "pdb_files">>,
       <<>> >>

InputKeyOrders == KeyOrders \o KeyOrdersWithoutIdentity

Keys == << <<sG1, sT1>>, <<sG1, sT2>> >>

\* exons and pdb_files of a record: no exons and no PDB file; a list of
\* strings and one PDB file; a list holding raw bytes and two PDB files
Bodies ==
    << [exons |-> PyNone, pdb_files |-> PyList(<<>>)],
       [exons |-> PyList(<<PyStr(sE1)>>),
        pdb_files |-> PyList(<<Pdb(s1ABC, <<0, 1>>)>>)],
       [exons |-> PyList(<<PyBytes(<<0, 255>>)>>),
        pdb_files |-> PyList(<<Pdb(s1ABC, <<0, 1>>), Pdb(s1XYZ, <<255>>)>>)] >>

\* GENE_ID / TRANSCRIPT_ID the filter script is configured with
FilterGenes == <<sG1, sG2>>
FilterTranscripts == <<sT1, sT2>>

Protein(ko, k, b) ==
    LET all == ("gene_id" :> PyStr(Keys[k][1]))
               @@ ("transcript_id" :> PyStr(Keys[k][2]))
               @@ ("sequence" :> PyStr(sM))
               @@ ("exons" :> Bodies[b].exons)
               @@ ("protein_coding" :> PyBool(TRUE))
               @@ ("nmd" :> PyBool(FALSE))
               @@ ("pdb_files" :> Bodies[b].pdb_files)
    IN  [ord |-> InputKeyOrders[ko],
         val |-> [key \in Range(InputKeyOrders[ko]) |-> all[key]]]

-----------------------------------------------------------------------------
(* The pipeline script 01, one action per step *)

NoFilter == [gene_id |-> PyNone, transcript_id |-> PyNone]

NoRow == [protein_index |-> -1, cells |-> <<>>, pdb_ids |-> PyNone, pdb_files |-> PyNone]
NoEntry == [ord |-> <<>>, val |-> <<>>]
NoResult == [op |-> "none", raised |-> "none", entry |-> NoEntry]
NoCmp == [compare_proteins |-> "none", compare_pkl_files |-> "none",
          proof_compare_pkl |-> "none"]

Init ==
    /\ pc = "start"
    /\ dbExists = FALSE
    /\ data = <<>>
    /\ keyOrder = <<>>
    /\ columns = <<>>
    /\ tableCols = <<>>
    /\ colTypes = <<>>
    /\ table = <<>>
    /\ txn = <<>>
    /\ connOpen = FALSE
    /\ idx = 0
    /\ startTable = <<>>
    /\ out = <<>>
    /\ outGene = NoExport
    /\ filt = NoFilter
    /\ proof = "none"
    /\ runs = 0
    /\ cmpA = <<>>
    /\ cmpB = <<>>
    /\ cmpRes = NoCmp
    /\ row = NoRow
    /\ rowRes = NoResult

checkerVars == <<cmpA, cmpB, cmpRes, row, rowRes>>

\* the first record has both PRIMARY KEY columns
HasIdentity(first_entry) ==
    {"gene_id", "transcript_id"} \subseteq DOMAIN first_entry.val

\* STEP 1: pickle.load, ORIGINAL_KEY_ORDER = list(data[0].keys()), other_columns.
\* data[0] of an empty collection raises IndexError.  The records of one
\* collection have the same keys in the same order.
LoadData ==
    /\ pc = "start"
    /\ runs < MaxRuns
    /\ \E ko \in 1..Len(InputKeyOrders), n \in 0..MaxLen :
         \E ks \in [1..n -> 1..Len(Keys)], bs \in [1..n -> 1..Len(Bodies)] :
            LET d == [i \in 1..n |-> Protein(ko, ks[i], bs[i])]
            IN  /\ data' = d
                /\ IF n = 0
                   THEN /\ pc' = "crashed"
                        /\ UNCHANGED <<keyOrder, columns>>
                   ELSE /\ pc' = "loaded"
                        /\ keyOrder' = original_key_order(d[1])
                        /\ columns' = other_columns_of(d[1])
    /\ runs' = runs + 1
    /\ out' = <<>>
    /\ outGene' = NoExport
    /\ filt' = NoFilter
    /\ proof' = "none"
    /\ UNCHANGED <<tableCols, colTypes, table, txn, connOpen, idx, startTable>>
    /\ UNCHANGED <<dbExists, cmpA, cmpB, cmpRes, row, rowRes>>

\* STEP 2: the admin connection creates the database unless it exists
CreateDatabase ==
    /\ pc = "loaded"
    /\ dbExists' = TRUE
    /\ pc' = "connected"
    /\ UNCHANGED <<data, keyOrder, columns, tableCols, colTypes, table, txn, connOpen,
                   idx, startTable, out, outGene, filt, proof, runs>>
    /\ UNCHANGED checkerVars

\* STEP 3: CREATE TABLE IF NOT EXISTS with the inferred column types; the
\* statement fails when a PRIMARY KEY column is none of the columns
CreateTable ==
    /\ pc = "connected"
    /\ IF tableCols # <<>>
       THEN /\ pc' = "created"
            /\ UNCHANGED <<tableCols, colTypes>>
       ELSE IF {"gene_id", "transcript_id"} \subseteq Range(columns)
       THEN /\ tableCols' = columns
            /\ colTypes' = col_defs(data[1])
            /\ pc' = "created"
       ELSE /\ pc' = "crashed"
            /\ UNCHANGED <<tableCols, colTypes>>
    /\ UNCHANGED <<data, keyOrder, columns, table, txn, connOpen, idx, startTable,
                   out, outGene, filt, proof, runs>>
    /\ UNCHANGED <<dbExists, cmpA, cmpB, cmpRes, row, rowRes>>

\* insert_proteins_with_pdbs: conn = engine.raw_connection(); cur = conn.cursor()
InsertBegin ==
    /\ pc = "created"
    /\ connOpen' = TRUE
    /\ txn' = <<>>
    /\ idx' = 0
    /\ startTable' = table
    /\ pc' = "inserting"
    /\ UNCHANGED <<data, keyOrder, columns, tableCols, colTypes, table,
                   out, outGene, filt, proof, runs>>
    /\ UNCHANGED <<dbExists, cmpA, cmpB, cmpRes, row, rowRes>>

\* a finally block that commits before it closes the connection
AbortInsert_Commits ==
    /\ connOpen' = FALSE
    /\ txn' = <<>>
    /\ pc' = "aborted"
    /\ table' = table \o txn

\* the except-less try/finally: conn.close() without commit discards the
\* transaction, and the exception ends the script
AbortInsert ==
    /\ connOpen' = FALSE
    /\ txn' = <<>>
    /\ pc' = "aborted"
    /\ UNCHANGED table

\* one iteration of the insert loop: build row_dict, cur.execute(sql, row_dict)
InsertRow ==
    /\ pc = "inserting"
    /\ idx < Len(data)
    /\ LET rd == row_dict(data[idx + 1], idx, columns)
           outcome == ExecuteOutcome(rd, tableCols, colTypes, table \o txn)
       IN  IF outcome = "error"
           THEN AbortInsert /\ UNCHANGED idx
           ELSE /\ txn' = IF outcome = "insert"
                          THEN Append(txn, StoredRow(rd, colTypes)) ELSE txn
                /\ idx' = idx + 1
                /\ UNCHANGED <<table, connOpen, pc>>
    /\ UNCHANGED <<data, keyOrder, columns, tableCols, colTypes, startTable,
                   out, outGene, filt, proof, runs>>
    /\ UNCHANGED <<dbExists, cmpA, cmpB, cmpRes, row, rowRes>>

\* the store fails on cur.execute of entry idx (connection lost, server down)
InsertFail ==
    /\ pc = "inserting"
    /\ idx < Len(data)
    /\ AbortInsert
    /\ UNCHANGED <<data, keyOrder, columns, tableCols, colTypes, idx, startTable,
                   out, outGene, filt, proof, runs>>
    /\ UNCHANGED <<dbExists, cmpA, cmpB, cmpRes, row, rowRes>>

\* conn.commit() after the loop, then finally: conn.close()
InsertCommit ==
    /\ pc = "inserting"
    /\ idx = Len(data)
    /\ table' = table \o txn
    /\ txn' = <<>>
    /\ connOpen' = FALSE
    /\ pc' = "inserted"
    /\ UNCHANGED <<data, keyOrder, columns, tableCols, colTypes, idx, startTable,
                   out, outGene, filt, proof, runs>>
    /\ UNCHANGED <<dbExists, cmpA, cmpB, cmpRes, row, rowRes>>

\* STEP 6: export_table_to_pkl(engine, TABLE_NAME, OUTPUT_PKL, ORIGINAL_KEY_ORDER)
Export ==
    /\ pc = "inserted"
    /\ IF \A n \in 1..Len(table) : row_to_entry_ok(table[n], keyOrder)
       THEN /\ \E p \in Orderings(table) : out' = export_table_to_pkl(table, p, keyOrder)
            /\ pc' = "exported"
       ELSE /\ pc' = "crashed"
            /\ UNCHANGED out
    /\ UNCHANGED <<data, keyOrder, columns, tableCols, colTypes, table, txn, connOpen,
                   idx, startTable, outGene, filt, proof, runs>>
    /\ UNCHANGED <<dbExists, cmpA, cmpB, cmpRes, row, rowRes>>

\* STEP 7: proof_compare_pkl(PKL_PATH, OUTPUT_PKL)
Proof ==
    /\ pc = "exported"
    /\ proof' = IF pipeline_proof_compare_pkl(data, out) THEN "passed" ELSE "failed"
    /\ pc' = "done"
    /\ UNCHANGED <<data, keyOrder, columns, tableCols, colTypes, table, txn, connOpen,
                   idx, startTable, out, outGene, filt, runs>>
    /\ UNCHANGED <<dbExists, cmpA, cmpB, cmpRes, row, rowRes>>

\* 03: export_by_gene on the table the pipeline filled
FilterByGene ==
    /\ pc = "done"
    /\ filt = NoFilter
    /\ \E g \in 1..Len(FilterGenes), p \in Orderings(table) :
          /\ filt' = [gene_id |-> PyStr(FilterGenes[g]), transcript_id |-> PyNone]
          /\ outGene' = export_by_gene(table, p, PyStr(FilterGenes[g]),
                                       detect_other_columns(tableCols))
    /\ UNCHANGED <<pc, data, keyOrder, columns, tableCols, colTypes, table, txn,
                   connOpen, idx, startTable, out, proof, runs>>
    /\ UNCHANGED <<dbExists, cmpA, cmpB, cmpRes, row, rowRes>>

\* 03: export_by_gene_transcript on the table the pipeline filled
FilterByGeneTranscript ==
    /\ pc = "done"
    /\ filt = NoFilter
    /\ \E g \in 1..Len(FilterGenes), t \in 1..Len(FilterTranscripts),
          p \in Orderings(table) :
          /\ filt' = [gene_id |-> PyStr(FilterGenes[g]),
                      transcript_id |-> PyStr(FilterTranscripts[t])]
          /\ outGene' = export_by_gene_transcript(table, p, PyStr(FilterGenes[g]),
                            PyStr(FilterTranscripts[t]), detect_other_columns(tableCols))
    /\ UNCHANGED <<pc, data, keyOrder, columns, tableCols, colTypes, table, txn,
                   connOpen, idx, startTable, out, proof, runs>>
    /\ UNCHANGED <<dbExists, cmpA, cmpB, cmpRes, row, rowRes>>

\* the script's process ends (normally or by an uncaught exception): its
\* variables are gone, the database stays; the script can be started again
EndRun ==
    /\ pc \in {"done", "aborted", "crashed"}
    /\ pc' = "start"
    /\ data' = <<>>
    /\ keyOrder' = <<>>
    /\ columns' = <<>>
    /\ idx' = 0
    /\ startTable' = <<>>
    /\ out' = <<>>
    /\ outGene' = NoExport
    /\ filt' = NoFilter
    /\ proof' = "none"
    /\ UNCHANGED <<tableCols, colTypes, table, txn, connOpen, runs>>
    /\ UNCHANGED <<dbExists, cmpA, cmpB, cmpRes, row, rowRes>>

Next ==
    \/ LoadData
    \/ CreateDatabase
    \/ CreateTable
    \/ InsertBegin
    \/ InsertRow
    \/ InsertFail
    \/ InsertCommit
    \/ Export
    \/ Proof
    \/ FilterByGene
    \/ FilterByGeneTranscript
    \/ EndRun

Spec == Init /\ [][Next]_vars

-----------------------------------------------------------------------------
(* The record <-> row mapping on its own (specification SpecMapper): a       *)
(* record is mapped to the row the insert stores for it and the row is       *)
(* mapped back by the full export or by the filtered export.  The exporters  *)
(* are also applied to rows of a table another writer filled: 03 reads       *)
(* protein_table_dynamic1, a table the pipeline 01 under src/ does not write.*)

PdbChoices == <<Pdb(s1ABC, <<0, 1>>), Pdb(s1XYZ, <<255>>)>>

MapperExons ==
    << PyNone,
       PyList(<<>>),
       PyList(<<PyStr(sE1), PyNone>>),
       PyList(<<PyBytes(<<0, 255>>)>>),
       PyDict("content" :> PyList(<<PyStr(sE1), PyBytes(<<1>>)>>)) >>

MapperSequences == <<PyStr(sM), PyNone>>

MapperProtein(ko, sq, ex, pdbs) ==
    [ord |-> KeyOrders[ko],
     val |-> ("gene_id" :> PyStr(sG1))
             @@ ("transcript_id" :> PyStr(sT1))
             @@ ("sequence" :> MapperSequences[sq])
             @@ ("exons" :> MapperExons[ex])
             @@ ("protein_coding" :> PyBool(TRUE))
             @@ ("nmd" :> PyBool(FALSE))
             @@ ("pdb_files" :> PyList(pdbs))]

\* a pdb_ids / pdb_files array of a stored row: NULL, or the elements f picks
IdArray(null, f) ==
    IF null THEN PyNone
    ELSE PyList([i \in DOMAIN f |-> PyStr(IF f[i] = 1 THEN s1ABC ELSE s1XYZ)])

FileArray(null, f) ==
    IF null THEN PyNone
    ELSE PyList([i \in DOMAIN f |-> Binary(IF f[i] = 1 THEN <<0, 1>> ELSE <<255>>)])

ForeignRow(ex, ids, files) ==
    [protein_index |-> 0,
     cells |-> ("gene_id" :> PyStr(sG1))
               @@ ("transcript_id" :> PyStr(sT1))
               @@ ("sequence" :> PyStr(sM))
               @@ ("exons" :> ex)
               @@ ("protein_coding" :> PyBool(TRUE))
               @@ ("nmd" :> PyBool(FALSE)),
     pdb_ids |-> ids,
     pdb_files |-> files]

pipelineVars == <<dbExists, colTypes, table, txn, connOpen, idx, startTable, out, outGene,
                  filt, proof, runs, cmpA, cmpB, cmpRes>>

MapperInitRest ==
    /\ dbExists = FALSE
    /\ colTypes = <<>>
    /\ table = <<>>
    /\ txn = <<>>
    /\ connOpen = FALSE
    /\ idx = 0
    /\ startTable = <<>>
    /\ out = <<>>
    /\ outGene = NoExport
    /\ filt = NoFilter
    /\ proof = "none"
    /\ runs = 0
    /\ cmpA = <<>>
    /\ cmpB = <<>>
    /\ cmpRes = NoCmp
    /\ rowRes = NoResult

MapperInit ==
    /\ MapperInitRest
    /\ \/ \E ko \in 1..Len(KeyOrders), sq \in 1..Len(MapperSequences),
             ex \in 1..Len(MapperExons), n \in 0..MaxPdbs :
            \E f \in [1..n -> 1..Len(PdbChoices)] :
               LET r == MapperProtein(ko, sq, ex, [i \in 1..n |-> PdbChoices[f[i]]])
               IN  /\ pc = "record"
                   /\ data = <<r>>
                   /\ keyOrder = original_key_order(r)
                   /\ columns = other_columns_of(r)
                   /\ tableCols = other_columns_of(r)
                   /\ row = NoRow
       \/ \E ko \in 1..Len(KeyOrders), ex \in 1..2 :
            \E n1 \in 0..MaxPdbs, n2 \in 0..MaxPdbs, null1 \in BOOLEAN, null2 \in BOOLEAN :
             \E f1 \in [1..n1 -> 1..2], f2 \in [1..n2 -> 1..2] :
               /\ null1 => n1 = 0
               /\ null2 => n2 = 0
               /\ pc = "row"
               /\ data = <<>>
               /\ keyOrder = KeyOrders[ko]
               /\ columns = SelectSeq(KeyOrders[ko], LAMBDA k : k # "pdb_files")
               /\ tableCols = SelectSeq(KeyOrders[ko], LAMBDA k : k # "pdb_files")
               /\ row = ForeignRow(MapperExons[ex], IdArray(null1, f1), FileArray(null2, f2))

\* the row insert_proteins_with_pdbs stores for the record, in a fresh table
ToRow ==
    /\ pc = "record"
    /\ LET types == col_defs(data[1])
           rd == row_dict(data[1], 0, columns)
       IN  IF ExecuteOutcome(rd, tableCols, types, <<>>) = "insert"
           THEN /\ row' = StoredRow(rd, types)
                /\ pc' = "row"
           ELSE /\ row' = row
                /\ pc' = "rejected"
    /\ UNCHANGED <<data, keyOrder, columns, tableCols, rowRes>>
    /\ UNCHANGED pipelineVars

\* export_table_to_pkl applied to the row
FromRowFull ==
    /\ pc = "row"
    /\ rowRes' = IF row_to_entry_ok(row, keyOrder)
                 THEN [op |-> "export_table_to_pkl", raised |-> "none",
                       entry |-> row_to_entry(row, keyOrder)]
                 ELSE [op |-> "export_table_to_pkl", raised |-> "KeyError",
                       entry |-> NoEntry]
    /\ pc' = "mapped"
    /\ UNCHANGED <<data, keyOrder, columns, tableCols, row>>
    /\ UNCHANGED pipelineVars

\* rows_to_pkl applied to the row
FromRowFiltered ==
    /\ pc = "row"
    /\ LET r == rows_to_pkl(<<row>>, detect_other_columns(tableCols))
       IN  rowRes' = [op |-> "rows_to_pkl", raised |-> r.raised,
                      entry |-> IF r.raised = "none" THEN r.data_out[1] ELSE NoEntry]
    /\ pc' = "mapped"
    /\ UNCHANGED <<data, keyOrder, columns, tableCols, row>>
    /\ UNCHANGED pipelineVars

MapperNext == ToRow \/ FromRowFull \/ FromRowFiltered

SpecMapper == MapperInit /\ [][MapperNext]_vars

-----------------------------------------------------------------------------
(* The checker toolkit 02 on its own (specification SpecCompare): two        *)
(* collections are drawn and each check is applied to them.                  *)

sG == <<71>>
s1T == <<49, 84>>
sT == <<84>>
sN == <<78>>
sX == <<120>>
sY == <<121>>

CmpKeys == << <<sG, s1T>>, <<sG1, sT>> >>

CmpKeyOrder ==
    <<"gene_id", "transcript_id", "sequence", "exons", "protein_coding", "nmd",
      "note", "pdb_files">>

\* sequence, note (a further scalar field of the records) and pdb_files
CmpVariants ==
    << [sequence |-> PyStr(sM), note |-> PyStr(sX), pdb_files |-> PyList(<<>>)],
       [sequence |-> PyStr(sN), note |-> PyStr(sX), pdb_files |-> PyList(<<>>)],
       [sequence |-> PyStr(sM), note |-> PyStr(sY), pdb_files |-> PyList(<<>>)],
       [sequence |-> PyStr(sM), note |-> PyStr(sX),
        pdb_files |-> PyList(<<Pdb(s1ABC, <<0, 1>>)>>)] >>

CmpProtein(k, v) ==
    [ord |-> CmpKeyOrder,
     val |-> ("gene_id" :> PyStr(CmpKeys[k][1]))
             @@ ("transcript_id" :> PyStr(CmpKeys[k][2]))
             @@ ("sequence" :> CmpVariants[v].sequence)
             @@ ("exons" :> PyList(<<>>))
             @@ ("protein_coding" :> PyBool(TRUE))
             @@ ("nmd" :> PyBool(FALSE))
             @@ ("note" :> CmpVariants[v].note)
             @@ ("pdb_files" :> CmpVariants[v].pdb_files)]

CompareInit ==
    /\ pc = "compare"
    /\ dbExists = FALSE
    /\ data = <<>>
    /\ keyOrder = <<>>
    /\ columns = <<>>
    /\ tableCols = <<>>
    /\ colTypes = <<>>
    /\ table = <<>>
    /\ txn = <<>>
    /\ connOpen = FALSE
    /\ idx = 0
    /\ startTable = <<>>
    /\ out = <<>>
    /\ outGene = NoExport
    /\ filt = NoFilter
    /\ proof = "none"
    /\ runs = 0
    /\ row = NoRow
    /\ rowRes = NoResult
    /\ cmpRes = NoCmp
    /\ \E n1 \in 1..MaxCmpLen, n2 \in 1..MaxCmpLen :
         \E k1 \in [1..n1 -> 1..Len(CmpKeys)], v1 \in [1..n1 -> 1..Len(CmpVariants)],
            k2 \in [1..n2 -> 1..Len(CmpKeys)], v2 \in [1..n2 -> 1..Len(CmpVariants)] :
            /\ cmpA = [i \in 1..n1 |-> CmpProtein(k1[i], v1[i])]
            /\ cmpB = [i \in 1..n2 |-> CmpProtein(k2[i], v2[i])]

compareFrame ==
    UNCHANGED <<pc, dbExists, data, keyOrder, columns, tableCols, colTypes, table, txn,
                connOpen, idx, startTable, out, outGene, filt, proof, runs, cmpA, cmpB,
                row, rowRes>>

Verdict(b) == IF b THEN "passed" ELSE "failed"

RunCompareProteins ==
    /\ pc = "compare"
    /\ cmpRes.compare_proteins = "none"
    /\ cmpRes' = [cmpRes EXCEPT !.compare_proteins = Verdict(compare_proteins(cmpA, cmpB))]
    /\ compareFrame

RunComparePklFiles ==
    /\ pc = "compare"
    /\ cmpRes.compare_pkl_files = "none"
    /\ cmpRes' = [cmpRes EXCEPT !.compare_pkl_files = Verdict(compare_pkl_files(cmpA, cmpB))]
    /\ compareFrame

RunProofComparePkl ==
    /\ pc = "compare"
    /\ cmpRes.proof_compare_pkl = "none"
    /\ cmpRes' = [cmpRes EXCEPT !.proof_compare_pkl = Verdict(proof_compare_pkl(cmpA, cmpB))]
    /\ compareFrame

CompareNext == RunCompareProteins \/ RunComparePklFiles \/ RunProofComparePkl

SpecCompare == CompareInit /\ [][CompareNext]_vars

-----------------------------------------------------------------------------
(* Properties of the pipeline (specification Spec) *)

TableKeys(rows) == {RowKey(rows[n]) : n \in 1..Len(rows)}

DataKeys(d) == {ProteinKey(d[i]) : i \in 1..Len(d)}

\* C1: persisting a collection into an empty destination table and retrieving
\* it yields a collection of the same length with the same record at every
\* position, and proof_compare_pkl passes.
C1_RoundTrip ==
    (pc = "done" /\ startTable = <<>>) =>
        /\ Len(out) = Len(data)
        /\ \A i \in 1..Len(out) : ValEq(out[i], data[i])
        /\ proof = "passed"

\* C2: a stored row is never changed, removed or duplicated by a step of the
\* pipeline; an insert whose key is already stored adds nothing and lets the
\* loop go on; a run whose keys are all stored already commits the table as
\* it was.
C2_StoredRowsStable ==
    [][/\ Len(table') >= Len(table)
       /\ \A n \in 1..Len(table) : table'[n] = table[n]
       /\ \A a, b \in 1..Len(table') : a # b => RowKey(table'[a]) # RowKey(table'[b])
       /\ (pc = "inserting" /\ idx' = idx + 1
             /\ ProteinKey(data[idx + 1]) \in TableKeys(table \o txn))
          => (txn' = txn /\ pc' = "inserting")
       /\ (pc = "inserting" /\ HasIdentity(data[1])
             /\ DataKeys(data) \subseteq TableKeys(table))
          => table' = table]_vars

C2_Witness ==
    /\ pc = "inserted"
    /\ Len(data) > 0
    /\ Len(startTable) > 0
    /\ HasIdentity(data[1])
    /\ DataKeys(data) \subseteq TableKeys(startTable)
    /\ table = startTable

\* C3: whenever no insert transaction is open, the stored protein_index values
\* are pairwise distinct and are exactly 0..N-1 for N stored rows.
C3_PositionsContiguous ==
    pc \in {"inserted", "exported", "done", "start"} =>
        /\ \A a, b \in 1..Len(table) :
              a # b => table[a].protein_index # table[b].protein_index
        /\ {table[n].protein_index : n \in 1..Len(table)} = 0..(Len(table) - 1)

\* C9: a run is all-or-nothing: while its transaction is open the committed
\* table is the one the run found, and after a failed insert the connection
\* is closed, the transaction is gone and the table is the one the run found.
C9_AllOrNothing ==
    /\ pc = "inserting" => table = startTable
    /\ pc = "aborted" => (table = startTable /\ ~connOpen /\ txn = <<>>)

C9_Witness ==
    /\ pc = "aborted"
    /\ idx >= 1
    /\ Len(startTable) > 0
    /\ \E i \in 1..idx : ProteinKey(data[i]) \notin TableKeys(startTable)

\* C10: every record the filtered export writes is the record the full export
\* wrote for the same row: same keys in the same order, same values.
C10_FilteredEqualsFull ==
    (pc = "done" /\ filt # NoFilter) =>
        /\ outGene.raised = "none"
        /\ \A n \in 1..Len(outGene.data_out) :
              \E m \in 1..Len(out) : out[m] = outGene.data_out[n]

-----------------------------------------------------------------------------
(* Properties of the record <-> row mapping (specification SpecMapper) *)

RowIds(r) == PyOr(r.pdb_ids, PyList(<<>>)).l
RowFiles(r) == PyOr(r.pdb_files, PyList(<<>>)).l

\* C4: every non-PDB field value of a record comes back from the full export
\* equal to the value that was stored (decode(encode(v)) = v).
C4_ValueRoundTrip ==
    (pc = "mapped" /\ data # <<>> /\ rowRes.op = "export_table_to_pkl") =>
        /\ rowRes.raised = "none"
        /\ \A key \in DOMAIN data[1].val \ {"pdb_files"} :
              rowRes.entry.val[key] = data[1].val[key]

\* C5: the row of a record with k PDB files has k pdb_ids and k pdb_files,
\* PDB file i at index i of both, and either exporter rebuilds the record's
\* pdb_files list from the row: same length, order, pdb_id and content.
C5_PdbListRoundTrip ==
    (pc \in {"row", "mapped"} /\ data # <<>>) =>
        LET pdbs == data[1].val["pdb_files"].l
        IN  /\ row.pdb_ids.t = "list"
            /\ row.pdb_files.t = "list"
            /\ Len(row.pdb_ids.l) = Len(pdbs)
            /\ Len(row.pdb_files.l) = Len(pdbs)
            /\ \A i \in 1..Len(pdbs) :
                  /\ row.pdb_ids.l[i] = pdbs[i].d["pdb_id"]
                  /\ bytes(row.pdb_files.l[i]) = pdbs[i].d["content"].y
            /\ pc = "mapped" =>
                  /\ rowRes.raised = "none"
                  /\ rowRes.entry.val["pdb_files"] = data[1].val["pdb_files"]

C5_Witness ==
    /\ pc = "mapped"
    /\ data # <<>>
    /\ Len(data[1].val["pdb_files"].l) > 1
    /\ data[1].val["pdb_files"].l[1] # data[1].val["pdb_files"].l[2]
    /\ rowRes.op = "export_table_to_pkl"
    /\ Len(rowRes.entry.val["pdb_files"].l) > 1

\* C8: mapping a row whose pdb_ids and pdb_files arrays differ in length
\* raises an error, whichever exporter maps it.
C8_ArityMismatchRaises ==
    (pc = "mapped" /\ Len(RowIds(row)) # Len(RowFiles(row))) =>
        rowRes.raised # "none"

-----------------------------------------------------------------------------
(* Properties of the checker toolkit (specification SpecCompare) *)

UniqueKeys(d) ==
    \A i, j \in 1..Len(d) : i # j => ProteinKey(d[i]) # ProteinKey(d[j])

\* d2 is d1 with the records at two positions exchanged
Swapped(d1, d2) ==
    /\ Len(d1) = Len(d2)
    /\ UniqueKeys(d1)
    /\ \E i, j \in 1..Len(d1) :
          /\ i # j
          /\ d1[i] # d1[j]
          /\ d2[i] = d1[j]
          /\ d2[j] = d1[i]
          /\ \A n \in 1..Len(d1) : n \notin {i, j} => d2[n] = d1[n]

\* C6: the fingerprint check fails on two collections that differ only by
\* two records having exchanged their positions.
C6_SwapDetected ==
    (cmpRes.proof_compare_pkl # "none" /\ Swapped(cmpA, cmpB)) =>
        cmpRes.proof_compare_pkl = "failed"

\* C7: when a field check passes, every key the two collections share has
\* equal values in every non-binary field and equal pdb_files lists.
C7_FieldCheckSound ==
    (/\ UniqueKeys(cmpA)
     /\ UniqueKeys(cmpB)
     /\ \/ cmpRes.compare_proteins = "passed"
        \/ cmpRes.compare_pkl_files = "passed") =>
        \A i \in 1..Len(cmpA), j \in 1..Len(cmpB) :
            ProteinKey(cmpA[i]) = ProteinKey(cmpB[j]) =>
                /\ \A f \in DOMAIN cmpA[i].val \ {"pdb_files"} :
                      f \in DOMAIN cmpB[j].val /\ cmpA[i].val[f] = cmpB[j].val[f]
                /\ pdbs_equal(cmpA[i].val["pdb_files"].l, cmpB[j].val["pdb_files"].l)

-----------------------------------------------------------------------------
(* Schema inference failure (specification Spec) *)

\* C11: in a run whose first record is empty or lacks gene_id or
\* transcript_id no step does storage I/O: no step creates the database,
\* creates the table, opens a connection or inserts a row.
C11_NoIOWithoutIdentity ==
    [][(Len(data) > 0 /\ ~HasIdentity(data[1])) =>
          /\ dbExists' = dbExists
          /\ tableCols' = tableCols
          /\ connOpen' = connOpen
          /\ txn' = txn
          /\ table' = table]_vars

====
